---- MODULE Spec2Model ----
(***************************************************************************)
(* Model of the airport catalog service (src/src/airports/data.go) and of  *)
(* the way the HTTP handlers (src/src/server/handlers.go) call it.         *)
(*                                                                         *)
(* Strings are sequences of byte values, so that strings.ToUpper,          *)
(* strings.ToLower, strings.TrimSpace, strings.Contains and Go's byte-wise *)
(* string comparison are computed, not assumed.  A Go map is a function;   *)
(* the order in which `range` visits a map is unspecified, so every loop   *)
(* over a map is a choice of a permutation of its keys.                    *)
(***************************************************************************)
EXTENDS Integers, Sequences, FiniteSets, TLC

VARIABLES svc, data, apts, indexes, last, prev, mu, calls, sched, geoip

vars == <<svc, data, apts, indexes, last, prev, mu, calls, sched, geoip>>

\* the lock of the indexes and the calls in progress, the scheduler, and the
\* GeoIP service: the parts of the program the catalog queries leave alone
others == <<mu, calls, sched, geoip>>

----------------------------------------------------------------------------
(* Bounds of the model *)

MaxAirports == 2
MaxLimit == 2
MaxOffset == 2

----------------------------------------------------------------------------
(* Strings *)

\* the bytes used: ' ' = 32, 'A' = 65, 'B' = 66, 'a' = 97, 'b' = 98
Str_empty == <<>>
Str_sp == <<32>>
Str_AB == <<65, 66>>
Str_Ab == <<65, 98>>
Str_aB == <<97, 66>>
Str_ab == <<97, 98>>
Str_B == <<66>>
Str_b == <<98>>
Str_BA == <<66, 65>>
Str_sp_ab == <<32, 97, 98>>
Str_B_sp == <<66, 32>>

ToUpperByte(c) == IF c >= 97 /\ c <= 122 THEN c - 32 ELSE c

ToLowerByte(c) == IF c >= 65 /\ c <= 90 THEN c + 32 ELSE c

ToUpper(s) == [i \in 1..Len(s) |-> ToUpperByte(s[i])]

ToLower(s) == [i \in 1..Len(s) |-> ToLowerByte(s[i])]

\* the ASCII white space strings.TrimSpace removes
IsSpace(c) == c \in {9, 10, 11, 12, 13, 32}

RECURSIVE TrimLeft(_)
TrimLeft(s) == IF s # <<>> /\ IsSpace(Head(s)) THEN TrimLeft(Tail(s)) ELSE s

RECURSIVE TrimRight(_)
TrimRight(s) ==
    IF s # <<>> /\ IsSpace(s[Len(s)]) THEN TrimRight(SubSeq(s, 1, Len(s) - 1)) ELSE s

TrimSpace(s) == TrimRight(TrimLeft(s))

Contains(s, substr) ==
    \E i \in 0..(Len(s) - Len(substr)) : SubSeq(s, i + 1, i + Len(substr)) = substr

\* Go's s < t on strings: byte-wise lexicographic order
RECURSIVE StrLess(_, _)
StrLess(s, t) ==
    IF t = <<>> THEN FALSE
    ELSE IF s = <<>> THEN TRUE
    ELSE IF Head(s) # Head(t) THEN Head(s) < Head(t)
    ELSE StrLess(Tail(s), Tail(t))

----------------------------------------------------------------------------
(* Generic helpers *)

Min(a, b) == IF a < b THEN a ELSE b

Range(s) == {s[i] : i \in DOMAIN s}

\* the orders in which `range` may visit the keys S of a map
RangeOrders(S) ==
    {s \in [1..Cardinality(S) -> S] : \A i, j \in DOMAIN s : i # j => s[i] # s[j]}

----------------------------------------------------------------------------
(* Go maps *)

EmptyMap == <<>>

MapPut(m, k, v) == [x \in (DOMAIN m) \cup {k} |-> IF x = k THEN v ELSE m[x]]

\* m[k] = append(m[k], v): a missing key reads as the nil slice
MapAppend(m, k, v) == MapPut(m, k, IF k \in DOMAIN m THEN Append(m[k], v) ELSE <<v>>)

----------------------------------------------------------------------------
(* The catalog *)

\* type Airport; the snapshot stores each airport under its own ICAO code
Airport(icao, f) ==
    [ICAO |-> icao, IATA |-> f.IATA, Name |-> f.Name, City |-> f.City,
     State |-> f.State, Country |-> f.Country, Elevation |-> f.Elevation,
     Lat |-> f.Lat, Lon |-> f.Lon, Tz |-> f.Tz]

\* the ICAO keys a snapshot may hold: "AB", its case variant "ab", and "B"
KeyPool == {Str_AB, Str_ab, Str_B}

\* the field values a snapshot may give an airport: the IATA code "b"
\* upper-cases to the ICAO key "B" and may be shared; the name "aB" contains
\* the query "ab", the name "B" does not; the city "AB" contains it (to keep
\* the snapshots few, only airports named "B" are given a city)
TextFields ==
    {f \in [IATA : {Str_empty, Str_b}, Name : {Str_aB, Str_B},
            City : {Str_empty, Str_AB}, State : {Str_empty}, Country : {Str_empty},
            Elevation : {0}, Lat : {0}, Lon : {0}, Tz : {Str_empty}] :
        f.City # Str_empty => f.Name = Str_B}

\* type AirportDatabase: the databases of at most MaxAirports airports
Databases(Fields) ==
    UNION {{[k \in K |-> Airport(k, f[k])] : f \in [K -> Fields]} :
           K \in {K \in SUBSET KeyPool : Cardinality(K) <= MaxAirports}}

\* the embedded airports.json: a well-formed object, or bytes that do not
\* parse, of which json.Unmarshal may have decoded some entries before it
\* reports the error
Payloads(Fields) ==
    {[wellFormed |-> TRUE, airports |-> db] : db \in Databases(Fields)}
        \cup {[wellFormed |-> FALSE, airports |-> db] : db \in Databases(Fields)}

LoadAirports(payload) ==
    IF payload.wellFormed
    THEN [airports |-> payload.airports, err |-> FALSE]
    ELSE [airports |-> EmptyMap, err |-> TRUE]

NilIndexes ==
    [ByICAO |-> EmptyMap, ByIATA |-> EmptyMap, ByCity |-> EmptyMap,
     ByCountry |-> EmptyMap, ByState |-> EmptyMap]

\* IndexOne without the test for an empty region
IndexOne_EmptyState(idx, icao, apt) ==
    LET i1 == [idx EXCEPT !.ByICAO = MapPut(@, ToUpper(icao), icao)]
        i2 == IF apt.IATA # Str_empty
              THEN [i1 EXCEPT !.ByIATA = MapAppend(@, ToUpper(apt.IATA), icao)]
              ELSE i1
        i3 == IF apt.City # Str_empty
              THEN [i2 EXCEPT !.ByCity = MapAppend(@, ToLower(apt.City), icao)]
              ELSE i2
        i4 == IF apt.Country # Str_empty
              THEN [i3 EXCEPT !.ByCountry = MapAppend(@, ToUpper(apt.Country), icao)]
              ELSE i3
    IN  [i4 EXCEPT !.ByState = MapAppend(@, ToLower(apt.State), icao)]

\* IndexOne with the alternate code indexed as written, not upper-cased
IndexOne_RawIATA(idx, icao, apt) ==
    LET i1 == [idx EXCEPT !.ByICAO = MapPut(@, ToUpper(icao), icao)]
        i2 == IF apt.IATA # Str_empty
              THEN [i1 EXCEPT !.ByIATA = MapAppend(@, apt.IATA, icao)]
              ELSE i1
        i3 == IF apt.City # Str_empty
              THEN [i2 EXCEPT !.ByCity = MapAppend(@, ToLower(apt.City), icao)]
              ELSE i2
        i4 == IF apt.Country # Str_empty
              THEN [i3 EXCEPT !.ByCountry = MapAppend(@, ToUpper(apt.Country), icao)]
              ELSE i3
    IN  IF apt.State # Str_empty
        THEN [i4 EXCEPT !.ByState = MapAppend(@, ToLower(apt.State), icao)]
        ELSE i4

\* one iteration of the loop of BuildIndexes; the pointer &apt is modelled by
\* the snapshot key icao, which names the copy apts[icao]
IndexOne(idx, icao, apt) ==
    LET i1 == [idx EXCEPT !.ByICAO = MapPut(@, ToUpper(icao), icao)]
        i2 == IF apt.IATA # Str_empty
              THEN [i1 EXCEPT !.ByIATA = MapAppend(@, ToUpper(apt.IATA), icao)]
              ELSE i1
        i3 == IF apt.City # Str_empty
              THEN [i2 EXCEPT !.ByCity = MapAppend(@, ToLower(apt.City), icao)]
              ELSE i2
        i4 == IF apt.Country # Str_empty
              THEN [i3 EXCEPT !.ByCountry = MapAppend(@, ToUpper(apt.Country), icao)]
              ELSE i3
    IN  IF apt.State # Str_empty
        THEN [i4 EXCEPT !.ByState = MapAppend(@, ToLower(apt.State), icao)]
        ELSE i4

RECURSIVE BuildLoop(_, _, _, _)
BuildLoop(airports, order, i, idx) ==
    IF i > Len(order) THEN idx
    ELSE BuildLoop(airports, order, i + 1, IndexOne(idx, order[i], airports[order[i]]))

\* BuildIndexes, with `order` the order in which range visits the map
BuildIndexes(airports, order) == BuildLoop(airports, order, 1, NilIndexes)

----------------------------------------------------------------------------
(* Queries *)

\* the result of one call: the request, how it ended ("ok", "notfound",
\* "panic"), whether the call read the catalog or an index, the local slice
\* `airports` before pagination, and the records returned
NoCall ==
    [op |-> "none", arg |-> Str_empty, limit |-> 0, offset |-> 0,
     outcome |-> "none", read |-> FALSE, list |-> <<>>, page |-> <<>>]

Result(outcome, read, list, page) ==
    [outcome |-> outcome, read |-> read, list |-> list, page |-> page]

\* GetByCode without the upper-casing of its argument
GetByCode_NoUpper(idx, heap, code) ==
    IF code \in DOMAIN idx.ByICAO
    THEN Result("ok", TRUE, <<>>, <<heap[idx.ByICAO[code]]>>)
    ELSE IF code \in DOMAIN idx.ByIATA /\ Len(idx.ByIATA[code]) > 0
    THEN Result("ok", TRUE, <<>>, <<heap[idx.ByIATA[code][1]]>>)
    ELSE Result("notfound", TRUE, <<>>, <<>>)

\* GetByCode without the look-up in the alternate-code index
GetByCode_NoIATA(idx, heap, code) ==
    IF ToUpper(code) \in DOMAIN idx.ByICAO
    THEN Result("ok", TRUE, <<>>, <<heap[idx.ByICAO[ToUpper(code)]]>>)
    ELSE Result("notfound", TRUE, <<>>, <<>>)

GetByCode(idx, heap, code) ==
    LET c == ToUpper(code) IN
    IF c \in DOMAIN idx.ByICAO
    THEN Result("ok", TRUE, <<>>, <<heap[idx.ByICAO[c]]>>)
    ELSE IF c \in DOMAIN idx.ByIATA /\ Len(idx.ByIATA[c]) > 0
    THEN Result("ok", TRUE, <<>>, <<heap[idx.ByIATA[c][1]]>>)
    ELSE Result("notfound", TRUE, <<>>, <<>>)

\* Paginate with end = limit instead of offset + limit
Paginate_EndIsLimit(airports, limit, offset) ==
    IF offset >= Len(airports) THEN [outcome |-> "ok", page |-> <<>>]
    ELSE LET end == IF limit > Len(airports) THEN Len(airports) ELSE limit
         IN  IF offset < 0 \/ end < offset
             THEN [outcome |-> "panic", page |-> <<>>]
             ELSE [outcome |-> "ok", page |-> SubSeq(airports, offset + 1, end)]

\* the pagination of Search and GetAll; a slice expression airports[lo:hi]
\* with lo < 0 or hi < lo panics
Paginate(airports, limit, offset) ==
    IF offset >= Len(airports) THEN [outcome |-> "ok", page |-> <<>>]
    ELSE LET sum == offset + limit
             end == IF sum > Len(airports) THEN Len(airports) ELSE sum
         IN  IF offset < 0 \/ end < offset
             THEN [outcome |-> "panic", page |-> <<>>]
             ELSE [outcome |-> "ok", page |-> SubSeq(airports, offset + 1, end)]

\* the comparison of Search reversed
NameLess_Descending(x, y) == StrLess(y.Name, x.Name)

NameLess(x, y) == StrLess(x.Name, y.Name)

ICAOLess(x, y) == StrLess(x.ICAO, y.ICAO)

\* results[i].distance < results[j].distance
DistanceLess(x, y) == x.distance < y.distance

\* the less function handed to sort.Slice: by name in Search, by ICAO in
\* GetAll, by distance in GetNearby and GetNearbyWithDistance
Less(by, x, y) ==
    IF by = "Name" THEN NameLess(x, y)
    ELSE IF by = "ICAO" THEN ICAOLess(x, y)
    ELSE DistanceLess(x, y)

\* sort.Slice(x, less) over the elements S collected from a map: some
\* arrangement of S with no pair out of order (the sort is not stable and the
\* elements arrive in map order, so elements that compare equal may come out
\* in any order)
SortSlice(S, by) ==
    {s \in RangeOrders(S) : \A i, j \in DOMAIN s : i < j => ~Less(by, s[j], s[i])}

\* the exact-match part of Search: the map `results` after the two index
\* look-ups, keyed by the ICAO field of the records found
CodeMatches(idx, heap, queryUpper) ==
    LET r1 == IF queryUpper \in DOMAIN idx.ByICAO
              THEN MapPut(EmptyMap, heap[idx.ByICAO[queryUpper]].ICAO,
                          heap[idx.ByICAO[queryUpper]])
              ELSE EmptyMap
        bucket == IF queryUpper \in DOMAIN idx.ByIATA THEN idx.ByIATA[queryUpper] ELSE <<>>
    IN  [c \in (DOMAIN r1) \cup {heap[bucket[i]].ICAO : i \in DOMAIN bucket} |->
            IF \E i \in DOMAIN bucket : heap[bucket[i]].ICAO = c
            THEN heap[bucket[CHOOSE i \in DOMAIN bucket :
                              /\ heap[bucket[i]].ICAO = c
                              /\ \A j \in DOMAIN bucket :
                                    heap[bucket[j]].ICAO = c => j <= i]]
            ELSE r1[c]]

\* the test of the partial-match scan on one record
PartialMatch(apt, query) ==
    Contains(ToLower(apt.Name), query) \/ Contains(ToLower(apt.City), query)

\* the map `results` after the scan of s.data
SearchResults(db, idx, heap, query) ==
    LET r2 == CodeMatches(idx, heap, ToUpper(query))
        hits == {k \in DOMAIN db : db[k].ICAO \notin DOMAIN r2 /\ PartialMatch(db[k], query)}
    IN  [c \in (DOMAIN r2) \cup {db[k].ICAO : k \in hits} |->
            IF c \in DOMAIN r2 THEN r2[c] ELSE db[CHOOSE k \in hits : db[k].ICAO = c]]

\* Search collecting its matches in a slice, with no check for a record
\* already collected
Search_NoDedup(db, idx, heap, query, limit, offset) ==
    LET q == ToLower(TrimSpace(query))
        byCode == CodeMatches(idx, heap, ToUpper(q))
        hits == {k \in DOMAIN db : PartialMatch(db[k], q)}
    IN  IF q = Str_empty THEN {Result("ok", FALSE, <<>>, <<>>)}
        ELSE {Result(Paginate(first \o second, limit, offset).outcome, TRUE,
                     first \o second, Paginate(first \o second, limit, offset).page) :
                <<first, second>> \in SortSlice(Range(byCode), "Name")
                                        \X SortSlice({db[k] : k \in hits}, "Name")}

\* Search without the early return on an empty query
Search_NoEarlyReturn(db, idx, heap, query, limit, offset) ==
    LET results == SearchResults(db, idx, heap, ToLower(TrimSpace(query))) IN
    {Result(Paginate(airports, limit, offset).outcome, TRUE, airports,
            Paginate(airports, limit, offset).page) :
        airports \in SortSlice(Range(results), "Name")}

\* Search: the set of results a call may return
Search(db, idx, heap, query, limit, offset) ==
    LET q == ToLower(TrimSpace(query)) IN
    IF q = Str_empty THEN {Result("ok", FALSE, <<>>, <<>>)}
    ELSE LET results == SearchResults(db, idx, heap, q) IN
         {Result(Paginate(airports, limit, offset).outcome, TRUE, airports,
                 Paginate(airports, limit, offset).page) :
            airports \in SortSlice(Range(results), "Name")}

\* GetAll without the sort: the records in the order range visits the map
GetAll_Unsorted(db, limit, offset) ==
    {Result(Paginate(airports, limit, offset).outcome, TRUE, airports,
            Paginate(airports, limit, offset).page) :
        airports \in RangeOrders(Range(db))}

\* GetAll: the set of results a call may return
GetAll(db, limit, offset) ==
    {Result(Paginate(airports, limit, offset).outcome, TRUE, airports,
            Paginate(airports, limit, offset).page) :
        airports \in SortSlice(Range(db), "ICAO")}

----------------------------------------------------------------------------
(* The inputs of the calls *)

CodePool == {Str_AB, Str_Ab, Str_aB, Str_ab, Str_B, Str_b, Str_BA, Str_empty}

QueryPool == {Str_empty, Str_sp, Str_sp_ab, Str_B_sp}

Limits == (-1)..MaxLimit

Offsets == (-1)..MaxOffset

----------------------------------------------------------------------------
(* The lock, the scheduler and the GeoIP service at the start *)

\* the goroutines that serve requests
Callers == {"c1", "c2"}

\* the zero value of sync.RWMutex: nobody holds either side
ZeroRWMutex == [readers |-> 0, writer |-> FALSE]

\* a goroutine that is in no call of the Service
NoQuery == [pc |-> "idle", op |-> "none", held |-> FALSE, path |-> "none"]

\* scheduler.New(): no task, not started; now is the wall clock in ticks
NewScheduler ==
    [started |-> FALSE, stopped |-> FALSE, now |-> 0, tasks |-> <<>>,
     readInFlight |-> FALSE]

\* the four database fields of the GeoIP Service
DBFields == {"cityIPv4DB", "cityIPv6DB", "countryDB", "asnDB"}

\* a *geoip2.Reader is the number of the load that opened it; nil is 0
NilReader == 0

\* the GeoIP Service as geoip.NewService returns it: the four databases of
\* the first load are open, no update and no lookup is running
LoadedGeoIP ==
    [db |-> [f \in DBFields |-> 1], closed |-> {}, loads |-> 1,
     update |-> [pc |-> "idle", result |-> "none", i |-> 1, runs |-> 0],
     lookup |-> [pc |-> "idle", ip |-> "none", cityDB |-> NilReader, result |-> "none",
                 from |-> NilReader],
     usedClosed |-> FALSE]

----------------------------------------------------------------------------
(* The state machine *)

Init ==
    /\ svc = "new"
    /\ data = EmptyMap
    /\ apts = EmptyMap
    /\ indexes = NilIndexes
    /\ last = NoCall
    /\ prev = NoCall
    /\ mu = ZeroRWMutex
    /\ calls = [g \in Callers |-> NoQuery]
    /\ sched = NewScheduler
    /\ geoip = LoadedGeoIP

\* NewService going on with what was decoded when LoadAirports fails
NewServiceFrom_KeepsPartial(Fields) ==
    /\ svc = "new"
    /\ \E payload \in Payloads(Fields) :
          \E order \in RangeOrders(DOMAIN payload.airports) :
             /\ svc' = IF LoadAirports(payload).err THEN "failed" ELSE "ready"
             /\ data' = payload.airports
             /\ apts' = payload.airports
             /\ indexes' = BuildIndexes(payload.airports, order)
    /\ UNCHANGED <<last, prev, others>>

\* NewService over the snapshots built from Fields
NewServiceFrom(Fields) ==
    /\ svc = "new"
    /\ \E payload \in Payloads(Fields) :
          LET loaded == LoadAirports(payload) IN
          IF loaded.err
          THEN /\ svc' = "failed"
               /\ UNCHANGED <<data, apts, indexes>>
          ELSE \E order \in RangeOrders(DOMAIN loaded.airports) :
                  /\ svc' = "ready"
                  /\ data' = loaded.airports
                  /\ apts' = loaded.airports
                  /\ indexes' = BuildIndexes(loaded.airports, order)
    /\ UNCHANGED <<last, prev, others>>

NewService == NewServiceFrom(TextFields)

\* a client sends a request, may send the same request once more, and is done
MayCall(op, arg, limit, offset) ==
    /\ svc = "ready"
    /\ \/ last = NoCall
       \/ /\ prev = NoCall
          /\ last.op = op /\ last.arg = arg /\ last.limit = limit /\ last.offset = offset

Record(op, arg, limit, offset, r) ==
    /\ last' = [op |-> op, arg |-> arg, limit |-> limit, offset |-> offset,
                outcome |-> r.outcome, read |-> r.read, list |-> r.list, page |-> r.page]
    /\ prev' = last
    /\ UNCHANGED <<svc, data, apts, indexes, others>>

CallGetByCode ==
    \E code \in CodePool :
        /\ MayCall("GetByCode", code, 0, 0)
        /\ Record("GetByCode", code, 0, 0, GetByCode(indexes, apts, code))

CallSearch ==
    \E query \in QueryPool, limit \in Limits, offset \in Offsets :
        /\ MayCall("Search", query, limit, offset)
        /\ \E r \in Search(data, indexes, apts, query, limit, offset) :
              Record("Search", query, limit, offset, r)

CallGetAll ==
    \E limit \in Limits, offset \in Offsets :
        /\ MayCall("GetAll", Str_empty, limit, offset)
        /\ \E r \in GetAll(data, limit, offset) :
              Record("GetAll", Str_empty, limit, offset, r)

ClientDone ==
    /\ last # NoCall
    /\ last' = NoCall
    /\ prev' = NoCall
    /\ UNCHANGED <<svc, data, apts, indexes, others>>

Next ==
    \/ NewService
    \/ CallGetByCode
    \/ CallSearch
    \/ CallGetAll
    \/ ClientDone

Spec == Init /\ [][Next]_vars

----------------------------------------------------------------------------
(* Properties of GetByCode *)

Catalog == {data[k] : k \in DOMAIN data}

IsGetByCode == svc = "ready" /\ last.op = "GetByCode"

\* the keys of the catalog that are case variants of code
KeysLike(code) == {k \in DOMAIN data : ToUpper(k) = ToUpper(code)}

\* the records whose non-empty alternate code is a case variant of code
AltLike(code) ==
    {r \in Catalog : r.IATA # Str_empty /\ ToUpper(r.IATA) = ToUpper(code)}

\* C1: for every key c of the catalog and every case variant c' of c,
\* GetByCode(c') succeeds and returns a record of the catalog whose primary
\* code, upper-cased, equals c upper-cased.
C1_GetByCodePrimary ==
    (IsGetByCode /\ KeysLike(last.arg) # {}) =>
        /\ last.outcome = "ok"
        /\ Len(last.page) = 1
        /\ last.page[1] \in Catalog
        /\ ToUpper(last.page[1].ICAO) = ToUpper(last.arg)

\* reached: the catalog holds the key "ab" only, and GetByCode("Ab") found it
C1_Witness ==
    /\ IsGetByCode
    /\ last.arg = Str_Ab
    /\ DOMAIN data = {Str_ab}
    /\ last.outcome = "ok"
    /\ last.page[1].ICAO = Str_ab

\* C2 as claimed: for every record with a non-empty alternate code a,
\* GetByCode(a) succeeds and returns a record whose alternate code,
\* upper-cased, equals a upper-cased, whatever the other primary codes are.
C2_GetByCodeAlternate ==
    (IsGetByCode /\ \E r \in Catalog : r.IATA # Str_empty /\ r.IATA = last.arg) =>
        /\ last.outcome = "ok"
        /\ Len(last.page) = 1
        /\ ToUpper(last.page[1].IATA) = ToUpper(last.arg)

\* C2 as amended: the same, provided a upper-cased is not the upper-cased
\* primary code of a record; when it is, GetByCode(a) returns a record with
\* that primary code, whatever its alternate code.
C2_GetByCodeAlternateUnlessPrimary ==
    (IsGetByCode /\ \E r \in Catalog : r.IATA # Str_empty /\ r.IATA = last.arg) =>
        /\ last.outcome = "ok"
        /\ Len(last.page) = 1
        /\ last.page[1] \in Catalog
        /\ IF KeysLike(last.arg) = {}
           THEN last.page[1] \in AltLike(last.arg)
           ELSE ToUpper(last.page[1].ICAO) = ToUpper(last.arg)

\* reached: two records share the alternate code "b", no record has the
\* primary code "B", and GetByCode("b") returned one of the two
C2_Witness ==
    /\ IsGetByCode
    /\ last.arg = Str_b
    /\ KeysLike(Str_b) = {}
    /\ Cardinality(AltLike(Str_b)) = 2
    /\ last.outcome = "ok"
    /\ last.page[1] \in AltLike(Str_b)

\* C3: GetByCode(code) returns a not-found error and no record exactly when
\* the upper-cased code is a key of neither the primary-code index nor the
\* alternate-code index; otherwise it returns one record and no error.
C3_NotFoundExactly ==
    IsGetByCode =>
        IF ToUpper(last.arg) \notin (DOMAIN indexes.ByICAO) \cup (DOMAIN indexes.ByIATA)
        THEN last.outcome = "notfound" /\ last.page = <<>>
        ELSE last.outcome = "ok" /\ Len(last.page) = 1

\* reached: a catalog with an alternate code, and a code found in no index
C3_Witness ==
    /\ IsGetByCode
    /\ DOMAIN indexes.ByICAO # {}
    /\ DOMAIN indexes.ByIATA # {}
    /\ last.outcome = "notfound"

----------------------------------------------------------------------------
(* Properties of Search *)

IsSearch == svc = "ready" /\ last.op = "Search"

\* the query as Search compares it
Trimmed(query) == ToLower(TrimSpace(query))

CodeMatch(r, q) ==
    \/ ToUpper(r.ICAO) = ToUpper(q)
    \/ r.IATA # Str_empty /\ ToUpper(r.IATA) = ToUpper(q)

TextMatch(r, q) ==
    \/ Contains(ToLower(r.Name), ToLower(q))
    \/ Contains(ToLower(r.City), ToLower(q))

\* C4: a page returned by Search holds no primary code more than once.
C4_SearchNoDuplicates ==
    IsSearch =>
        \A i, j \in DOMAIN last.page :
            i # j => last.page[i].ICAO # last.page[j].ICAO

\* reached: two records share the alternate code queried, both also match
\* the query as a substring of their names, and both are in the page
C4_Witness ==
    /\ IsSearch
    /\ Len(last.page) = 2
    /\ \A i \in DOMAIN last.page :
          /\ last.page[i].IATA # Str_empty
          /\ ToUpper(last.page[i].IATA) = ToUpper(Trimmed(last.arg))
          /\ TextMatch(last.page[i], Trimmed(last.arg))

\* C5: Search returns an empty result for every limit and offset when the
\* query is empty or only white space, and reads neither catalog nor index.
C5_EmptyQuery ==
    (IsSearch /\ TrimSpace(last.arg) = Str_empty) =>
        /\ last.outcome = "ok"
        /\ last.page = <<>>
        /\ ~last.read

\* reached: a white-space query on a non-empty catalog, with a negative offset
C5_Witness ==
    /\ IsSearch
    /\ last.arg = Str_sp
    /\ last.offset < 0
    /\ Catalog # {}
    /\ last.page = <<>>

\* the records Search must return for the trimmed query q: those whose
\* primary or alternate code equals q case-insensitively, and those whose
\* name or city contains q case-insensitively
Matching(q) == {r \in Catalog : CodeMatch(r, q) \/ TextMatch(r, q)}

\* a Search that succeeded, not paginated: offset 0, limit >= catalog size
IsFullSearch ==
    /\ IsSearch
    /\ Trimmed(last.arg) # Str_empty
    /\ last.offset = 0
    /\ last.limit >= Cardinality(Catalog)

\* C6: for a non-empty trimmed query, the unpaginated Search result is
\* exactly the set of records that match by code or by substring.
C6_SearchExactSet ==
    IsFullSearch => last.outcome = "ok" /\ Range(last.page) = Matching(Trimmed(last.arg))

\* C7: every page returned by Search is ordered by display name ascending,
\* code matches included.
C7_SearchSortedByName ==
    IsSearch =>
        \A i, j \in DOMAIN last.page :
            i < j => ~StrLess(last.page[j].Name, last.page[i].Name)

\* reached: a page of two records with different names, where the second
\* matched by code and the first matched by substring only
C7_Witness ==
    /\ IsSearch
    /\ Len(last.page) = 2
    /\ StrLess(last.page[1].Name, last.page[2].Name)
    /\ CodeMatch(last.page[2], Trimmed(last.arg))
    /\ ~CodeMatch(last.page[1], Trimmed(last.arg))

SameRequest(x, y) ==
    x.op = y.op /\ x.arg = y.arg /\ x.limit = y.limit /\ x.offset = y.offset

\* C8: two calls of Search with the same query, limit and offset on the same
\* catalog return the same sequence of primary codes.
C8_SearchDeterministic ==
    (IsSearch /\ prev.op = "Search" /\ SameRequest(prev, last)) =>
        /\ last.outcome = prev.outcome
        /\ [i \in DOMAIN last.page |-> last.page[i].ICAO]
              = [i \in DOMAIN prev.page |-> prev.page[i].ICAO]

----------------------------------------------------------------------------
(* Properties of the pagination and of GetAll *)

IsGetAll == svc = "ready" /\ last.op = "GetAll"

Rank(r) == Cardinality({x \in Catalog : StrLess(x.ICAO, r.ICAO)})

\* C10: GetAll(limit, 0) with limit >= catalog size returns every record
\* once, by primary code ascending; and for k >= 1 the page GetAll(k, j*k)
\* holds exactly the records of rank j*k .. j*k+k-1 in that order, so that
\* the pages concatenate to the whole catalog.
C10_GetAllPages ==
    (IsGetAll /\ last.offset >= 0 /\ last.limit >= 1 /\ last.offset % last.limit = 0) =>
        /\ last.outcome = "ok"
        /\ Len(last.page) =
              Cardinality({r \in Catalog : Rank(r) >= last.offset
                                            /\ Rank(r) < last.offset + last.limit})
        /\ \A i \in DOMAIN last.page :
              last.page[i] \in Catalog /\ Rank(last.page[i]) = last.offset + i - 1
        /\ (last.offset = 0 /\ last.limit >= Cardinality(Catalog)) =>
              Range(last.page) = Catalog

\* reached: a catalog of two records, read in pages of one: the second page
\* holds the record with the greater primary code
C10_Witness ==
    /\ IsGetAll
    /\ Cardinality(Catalog) = 2
    /\ last.limit = 1
    /\ last.offset = 1
    /\ Len(last.page) = 1
    /\ Rank(last.page[1]) = 1

----------------------------------------------------------------------------
(* Units and distances *)

\* A float64 that holds a distance is modelled in fixed point, as a whole
\* number of thousandths (kilometres counted in metres); a coordinate is a
\* whole number of degrees.

\* the bytes used: 'K' = 75, 'M' = 77, 'a' = 97, 'c' = 99, 'e' = 101,
\* 'i' = 105, 'k' = 107, 'l' = 108, 'm' = 109, 'o' = 111, 'p' = 112,
\* 'r' = 114, 's' = 115, 't' = 116
Str_metric == <<109, 101, 116, 114, 105, 99>>
Str_Metric == <<77, 101, 116, 114, 105, 99>>
Str_imperial == <<105, 109, 112, 101, 114, 105, 97, 108>>
Str_m == <<109>>
Str_M == <<77>>
Str_km == <<107, 109>>
Str_kM == <<107, 77>>
Str_mi == <<109, 105>>
Str_kilometers == <<107, 105, 108, 111, 109, 101, 116, 101, 114, 115>>
Str_Kilometers == <<75, 105, 108, 111, 109, 101, 116, 101, 114, 115>>
Str_miles == <<109, 105, 108, 101, 115>>

UnitMetric == Str_metric

UnitImperial == Str_imperial

\* const KmToMiles = 0.621371, in millionths
KmToMiles == 621371

\* const earthRadius = 6371.0, in kilometres
earthRadius == 6371

\* x * m / 1000000 rounded down, for x >= 0 and 0 <= m < 1000000: the product
\* of a float64 and a factor given in millionths.  The product is formed
\* from the thousands and the units of both operands, so that no
\* intermediate value leaves the 32-bit range of TLC's integers.
MulMicro(x, m) ==
    LET xh == x \div 1000
        xl == x % 1000
        mh == m \div 1000
        ml == m % 1000
    IN  xh * mh + ((xh * ml + xl * mh) + ((xl * ml) \div 1000)) \div 1000

\* ConvertDistance comparing the unit without regard to letter case
ConvertDistance_AnyCase(distanceKm, units) ==
    IF ToLower(units) = UnitMetric
    THEN [value |-> distanceKm, unit |-> Str_km]
    ELSE [value |-> MulMicro(distanceKm, KmToMiles), unit |-> Str_mi]

ConvertDistance(distanceKm, units) ==
    IF units = UnitMetric
    THEN [value |-> distanceKm, unit |-> Str_km]
    ELSE [value |-> MulMicro(distanceKm, KmToMiles), unit |-> Str_mi]

\* ParseUnits without the short forms "m" and "km"
ParseUnits_LongOnly(unitParam) ==
    IF ToLower(unitParam) \in {Str_metric, Str_kilometers}
    THEN UnitMetric
    ELSE UnitImperial

ParseUnits(unitParam) ==
    IF ToLower(unitParam) \in {Str_metric, Str_m, Str_km, Str_kilometers}
    THEN UnitMetric
    ELSE UnitImperial

\* the angle c = 2 * atan2(sqrt(a), sqrt(1 - a)) of haversine, in millionths
\* of a radian, tabulated for the points with latitude and longitude 0 or 1
\* degree: a = sin^2(dLat/2) + cos(lat1) * cos(lat2) * sin^2(dLon/2) depends
\* on the two latitudes and on the size of the difference of the longitudes
CentralAngle(lat1, lon1, lat2, lon2) ==
    LET dLon == IF lon2 >= lon1 THEN lon2 - lon1 ELSE lon1 - lon2
    IN  CASE lat1 = lat2 /\ dLon = 0 -> 0
          [] lat1 # lat2 /\ dLon = 0 -> 17453
          [] lat1 = 0 /\ lat2 = 0 /\ dLon = 1 -> 17453
          [] lat1 = 1 /\ lat2 = 1 /\ dLon = 1 -> 17451
          [] lat1 # lat2 /\ dLon = 1 -> 24682

\* haversine: earthRadius * c, in thousandths of a kilometre
haversine(lat1, lon1, lat2, lon2) ==
    (earthRadius * CentralAngle(lat1, lon1, lat2, lon2)) \div 1000

----------------------------------------------------------------------------
(* The geographic queries *)

\* the slice `results` of GetNearby and GetNearbyWithDistance before the
\* sort: a copy of every record of s.data within radiusKm, with its distance
WithinRadius_Strict(db, lat, lon, radiusKm) ==
    {x \in {[airport |-> db[k],
             distance |-> haversine(lat, lon, db[k].Lat, db[k].Lon)] : k \in DOMAIN db} :
        x.distance < radiusKm}

WithinRadius(db, lat, lon, radiusKm) ==
    {x \in {[airport |-> db[k],
             distance |-> haversine(lat, lon, db[k].Lat, db[k].Lon)] : k \in DOMAIN db} :
        x.distance <= radiusKm}

\* the end of both functions: limit is lowered to len(results), make() with
\* a negative length panics, and the first limit results are copied out
Nearest(results, limit) ==
    LET n == IF limit > Len(results) THEN Len(results) ELSE limit
    IN  IF n < 0
        THEN [outcome |-> "panic", page |-> <<>>]
        ELSE [outcome |-> "ok", page |-> SubSeq(results, 1, n)]

\* GetNearby with the results left in the order of the map
GetNearby_Unsorted(db, lat, lon, radiusKm, limit) ==
    {Result(Nearest(results, limit).outcome, TRUE, results,
            [i \in DOMAIN Nearest(results, limit).page |->
                Nearest(results, limit).page[i].airport]) :
        results \in RangeOrders(WithinRadius(db, lat, lon, radiusKm))}

\* the outcomes of GetNearby(lat, lon, radiusKm, limit)
GetNearby(db, lat, lon, radiusKm, limit) ==
    {Result(Nearest(results, limit).outcome, TRUE, results,
            [i \in DOMAIN Nearest(results, limit).page |->
                Nearest(results, limit).page[i].airport]) :
        results \in SortSlice(WithinRadius(db, lat, lon, radiusKm), "distance")}

\* the outcomes of GetNearbyWithDistance(lat, lon, radiusKm, limit, units)
GetNearbyWithDistance(db, lat, lon, radiusKm, limit, units) ==
    {Result(Nearest(results, limit).outcome, TRUE, results,
            [i \in DOMAIN Nearest(results, limit).page |->
                [Airport |-> Nearest(results, limit).page[i].airport,
                 Distance |->
                    ConvertDistance(Nearest(results, limit).page[i].distance, units).value,
                 DistanceUnit |->
                    ConvertDistance(Nearest(results, limit).page[i].distance, units).unit]]) :
        results \in SortSlice(WithinRadius(db, lat, lon, radiusKm), "distance")}

\* GetInBoundingBox with the bounds excluded
GetInBoundingBox_Exclusive(db, minLat, maxLat, minLon, maxLon) ==
    {Result("ok", TRUE, results, results) :
        results \in RangeOrders({db[k] : k \in
            {k \in DOMAIN db : /\ db[k].Lat > minLat /\ db[k].Lat < maxLat
                               /\ db[k].Lon > minLon /\ db[k].Lon < maxLon}})}

\* the outcomes of GetInBoundingBox: the records of the box, in map order
GetInBoundingBox(db, minLat, maxLat, minLon, maxLon) ==
    {Result("ok", TRUE, results, results) :
        results \in RangeOrders({db[k] : k \in
            {k \in DOMAIN db : /\ db[k].Lat >= minLat /\ db[k].Lat <= maxLat
                               /\ db[k].Lon >= minLon /\ db[k].Lon <= maxLon}})}

----------------------------------------------------------------------------
(* The state machine of the geographic queries *)

\* latitudes and longitudes of the airports, in degrees
Degrees == {0, 1}

\* the snapshots differ in the positions of their airports only
GeoFields ==
    [IATA : {Str_empty}, Name : {Str_B}, City : {Str_empty}, State : {Str_empty},
     Country : {Str_empty}, Elevation : {0}, Lat : Degrees, Lon : Degrees,
     Tz : {Str_empty}]

\* the radii asked for: none, the distance of one degree of latitude, 200 km
Radii == {0, haversine(0, 0, 1, 0), 200000}

\* the units handed to GetNearbyWithDistance: what ParseUnits returns
NearbyUnits == {UnitMetric, UnitImperial}

\* the latitude bounds and the longitude bounds of a box, in degrees
LatBounds == (-1)..1

LonBounds == Degrees

NewServiceGeo == NewServiceFrom(GeoFields)

\* a client asks for the airports near a point, may ask once more for the
\* same point, radius and limit through either function, and is done
MayCallNearby(lat, lon, radiusKm, limit) ==
    /\ svc = "ready"
    /\ \/ last = NoCall
       \/ /\ prev = NoCall
          /\ last.op \in {"GetNearby", "GetNearbyWithDistance"}
          /\ last.arg.lat = lat /\ last.arg.lon = lon
          /\ last.arg.radiusKm = radiusKm /\ last.limit = limit

CallGetNearby ==
    \E lat \in Degrees, lon \in {0}, radiusKm \in Radii, limit \in Limits :
        /\ MayCallNearby(lat, lon, radiusKm, limit)
        /\ \E r \in GetNearby(data, lat, lon, radiusKm, limit) :
              Record("GetNearby", [lat |-> lat, lon |-> lon, radiusKm |-> radiusKm],
                     limit, 0, r)

CallGetNearbyWithDistance ==
    \E lat \in Degrees, lon \in {0}, radiusKm \in Radii, limit \in Limits,
       units \in NearbyUnits :
        /\ MayCallNearby(lat, lon, radiusKm, limit)
        /\ \E r \in GetNearbyWithDistance(data, lat, lon, radiusKm, limit, units) :
              Record("GetNearbyWithDistance",
                     [lat |-> lat, lon |-> lon, radiusKm |-> radiusKm, units |-> units],
                     limit, 0, r)

CallGetInBoundingBox ==
    \E minLat \in LatBounds, maxLat \in LatBounds, minLon \in LonBounds,
       maxLon \in LonBounds :
        LET box == [minLat |-> minLat, maxLat |-> maxLat,
                    minLon |-> minLon, maxLon |-> maxLon]
        IN  /\ MayCall("GetInBoundingBox", box, 0, 0)
            /\ \E r \in GetInBoundingBox(data, minLat, maxLat, minLon, maxLon) :
                  Record("GetInBoundingBox", box, 0, 0, r)

NextGeo ==
    \/ NewServiceGeo
    \/ CallGetNearby
    \/ CallGetNearbyWithDistance
    \/ CallGetInBoundingBox
    \/ ClientDone

SpecGeo == Init /\ [][NextGeo]_vars

----------------------------------------------------------------------------
(* The state machine of the unit functions *)

\* the values of the units parameter a request may carry
UnitParams ==
    {Str_empty, Str_metric, Str_Metric, Str_imperial, Str_m, Str_M, Str_km,
     Str_kM, Str_mi, Str_kilometers, Str_Kilometers, Str_miles}

\* the distances converted, in thousandths of a kilometre
Distances == {0, 1, 1000, 1609, 3000}

\* ParseUnits(raw), or ParseUnits of the result of the call before
CallParseUnits ==
    \E raw \in UnitParams \cup {UnitMetric, UnitImperial} :
        /\ \/ last = NoCall
           \/ prev = NoCall /\ last.op = "ParseUnits" /\ raw = last.page[1]
        /\ Record("ParseUnits", raw, 0, 0,
                  Result("ok", FALSE, <<>>, <<ParseUnits(raw)>>))

\* ConvertDistance(km, u), or ConvertDistance of the value of the call before
CallConvertDistance ==
    \E km \in Distances \cup {MulMicro(d, KmToMiles) : d \in Distances},
       u \in UnitParams :
        /\ \/ last = NoCall /\ km \in Distances
           \/ /\ prev = NoCall /\ last.op = "ConvertDistance"
              /\ km = last.page[1].value /\ u = last.arg.units
        /\ Record("ConvertDistance", [km |-> km, units |-> u], 0, 0,
                  Result("ok", FALSE, <<>>, <<ConvertDistance(km, u)>>))

NextUnits ==
    \/ CallParseUnits
    \/ CallConvertDistance
    \/ ClientDone

SpecUnits == Init /\ [][NextUnits]_vars

----------------------------------------------------------------------------
(* Properties of the geographic queries *)

IsGetNearby == svc = "ready" /\ last.op = "GetNearby"

\* the great-circle distance of record r from the point of call c
DistanceFrom(c, r) == haversine(c.arg.lat, c.arg.lon, r.Lat, r.Lon)

\* the records of the catalog within the radius of call c
InRadius(c) == {r \in Catalog : DistanceFrom(c, r) <= c.arg.radiusKm}

\* C11: for every point, radius and limit, the records GetNearby returns are
\* in non-decreasing order of great-circle distance from the point, and none
\* of them is farther than radiusKm (a record at exactly radiusKm may be
\* returned).
C11_NearbySortedWithinRadius ==
    IsGetNearby =>
        /\ \A i, j \in DOMAIN last.page :
              i < j => DistanceFrom(last, last.page[i]) <= DistanceFrom(last, last.page[j])
        /\ \A i \in DOMAIN last.page :
              /\ last.page[i] \in Catalog
              /\ DistanceFrom(last, last.page[i]) <= last.arg.radiusKm

\* reached: GetNearby returned two records, the nearer first, the second at
\* exactly the radius
C11_Witness ==
    /\ IsGetNearby
    /\ Len(last.page) = 2
    /\ DistanceFrom(last, last.page[1]) < DistanceFrom(last, last.page[2])
    /\ DistanceFrom(last, last.page[2]) = last.arg.radiusKm

\* C12: for limit >= 0, GetNearby does not fail and returns exactly
\* min(limit, m) distinct records, m being the number of records within the
\* radius, and no record within the radius that was left out is strictly
\* nearer than a returned one.
C12_NearbyNearest ==
    (IsGetNearby /\ last.limit >= 0) =>
        /\ last.outcome = "ok"
        /\ Len(last.page) = Min(last.limit, Cardinality(InRadius(last)))
        /\ Cardinality(Range(last.page)) = Len(last.page)
        /\ Range(last.page) \subseteq InRadius(last)
        /\ \A r \in InRadius(last) \ Range(last.page) :
              \A i \in DOMAIN last.page :
                 ~(DistanceFrom(last, r) < DistanceFrom(last, last.page[i]))

\* reached: two records within the radius, one of them at exactly the
\* radius, and GetNearby with limit 1 returned the nearer one
C12_Witness ==
    /\ IsGetNearby
    /\ last.limit = 1
    /\ Cardinality(InRadius(last)) = 2
    /\ Len(last.page) = 1
    /\ \E r \in InRadius(last) :
          /\ DistanceFrom(last, last.page[1]) < DistanceFrom(last, r)
          /\ DistanceFrom(last, r) = last.arg.radiusKm

IsNearbyCall(c) == c.op \in {"GetNearby", "GetNearbyWithDistance"}

\* the primary codes of the records call c returned, in order
NearbyCodes(c) ==
    [i \in DOMAIN c.page |->
        IF c.op = "GetNearby" THEN c.page[i].ICAO ELSE c.page[i].Airport.ICAO]

\* C13: GetNearbyWithDistance returns the same records in the same order as
\* GetNearby called with the same point, radius and limit >= 0, and the same
\* records in the same order whatever the units.
C13_WithDistanceSameRecords ==
    (/\ svc = "ready"
     /\ IsNearbyCall(last) /\ IsNearbyCall(prev)
     /\ "GetNearbyWithDistance" \in {last.op, prev.op}
     /\ last.arg.lat = prev.arg.lat /\ last.arg.lon = prev.arg.lon
     /\ last.arg.radiusKm = prev.arg.radiusKm
     /\ last.limit = prev.limit /\ last.limit >= 0) =>
        /\ last.outcome = prev.outcome
        /\ NearbyCodes(last) = NearbyCodes(prev)

IsGetInBoundingBox == svc = "ready" /\ last.op = "GetInBoundingBox"

\* the records of the catalog inside the box of call c, bounds included
InBox(c) ==
    {r \in Catalog : /\ c.arg.minLat <= r.Lat /\ r.Lat <= c.arg.maxLat
                     /\ c.arg.minLon <= r.Lon /\ r.Lon <= c.arg.maxLon}

\* C14: GetInBoundingBox returns exactly the records with
\* minLat <= latitude <= maxLat and minLon <= longitude <= maxLon, each
\* once; when a minimum exceeds its maximum the result is empty, and the
\* call does not fail.
C14_BoundingBoxExact ==
    IsGetInBoundingBox =>
        /\ last.outcome = "ok"
        /\ Range(last.page) = InBox(last)
        /\ Len(last.page) = Cardinality(InBox(last))
        /\ (last.arg.minLat > last.arg.maxLat \/ last.arg.minLon > last.arg.maxLon)
              => last.page = <<>>

\* reached: of two records, GetInBoundingBox returned the one that lies on
\* the upper latitude bound and on the lower longitude bound of the box
C14_Witness ==
    /\ IsGetInBoundingBox
    /\ Cardinality(Catalog) = 2
    /\ Len(last.page) = 1
    /\ last.page[1].Lat = last.arg.maxLat
    /\ last.page[1].Lon = last.arg.minLon
    /\ last.arg.minLat < last.arg.maxLat

----------------------------------------------------------------------------
(* Properties of the unit functions *)

IsConvertDistance == last.op = "ConvertDistance"

\* C15: ConvertDistance(km, "metric") returns km unchanged with the label
\* "km", so that converting its result again returns the first km; for
\* every other value of the units, unrecognized and empty ones included, it
\* returns km * 0.621371 with the label "mi".
C15_ConvertDistance ==
    IsConvertDistance =>
        /\ IF last.arg.units = Str_metric
           THEN last.page[1] = [value |-> last.arg.km, unit |-> Str_km]
           ELSE last.page[1] = [value |-> (last.arg.km * KmToMiles) \div 1000000,
                                unit |-> Str_mi]
        /\ (prev.op = "ConvertDistance" /\ last.arg.units = Str_metric)
              => last.page[1].value = prev.arg.km

\* reached: ConvertDistance(1.609, "") returned 0.999 "mi"
C15_Witness ==
    /\ IsConvertDistance
    /\ last.arg = [km |-> 1609, units |-> Str_empty]
    /\ last.page[1] = [value |-> 999, unit |-> Str_mi]

IsParseUnits == last.op = "ParseUnits"

\* the spellings ParseUnits takes for metric
MetricWords == {Str_metric, Str_m, Str_km, Str_kilometers}

\* C16: ParseUnits(raw) is "metric" exactly when raw equals "metric", "m",
\* "km" or "kilometers" up to letter case and "imperial" otherwise, the empty
\* string included; and ParseUnits(ParseUnits(raw)) = ParseUnits(raw).
C16_ParseUnits ==
    IsParseUnits =>
        /\ last.page[1] \in {Str_metric, Str_imperial}
        /\ last.page[1] = Str_metric
              <=> \E w \in MetricWords : ToUpper(w) = ToUpper(last.arg)
        /\ prev.op = "ParseUnits" => last.page[1] = prev.page[1]

\* reached: ParseUnits("kM") returned "metric", and so did ParseUnits of
\* that result
C16_Witness ==
    /\ IsParseUnits
    /\ prev.op = "ParseUnits"
    /\ prev.arg = Str_kM
    /\ last.arg = prev.page[1]
    /\ last.page[1] = Str_metric

----------------------------------------------------------------------------
(* The statistics *)

\* Stats counting the city names as they are written in s.data
Stats_RawCities(db, idx) ==
    [total_airports |-> Cardinality(DOMAIN db),
     countries |-> Cardinality(DOMAIN idx.ByCountry),
     cities |-> Cardinality({db[k].City : k \in DOMAIN db} \ {Str_empty}),
     with_iata |-> Cardinality(DOMAIN idx.ByIATA)]

\* Stats: the lengths of s.data and of three of the indexes
Stats(db, idx) ==
    [total_airports |-> Cardinality(DOMAIN db),
     countries |-> Cardinality(DOMAIN idx.ByCountry),
     cities |-> Cardinality(DOMAIN idx.ByCity),
     with_iata |-> Cardinality(DOMAIN idx.ByIATA)]

\* GetCountries: the length of every bucket of the country index
GetCountries(idx) ==
    [country \in DOMAIN idx.ByCountry |-> Len(idx.ByCountry[country])]

\* GetStatesInCountry looking the country up as it is written
GetStatesInCountry_NoUpper(idx, heap, country) ==
    IF country \notin DOMAIN idx.ByCountry THEN EmptyMap
    ELSE LET airports == idx.ByCountry[country]
         IN  [state \in {heap[airports[i]].State : i \in DOMAIN airports} \ {Str_empty} |->
                Cardinality({i \in DOMAIN airports : heap[airports[i]].State = state})]

\* GetStatesInCountry: the records of the bucket of the upper-cased country
\* are counted under their State as it is written, the empty one left out
GetStatesInCountry(idx, heap, country) ==
    LET countryUpper == ToUpper(country) IN
    IF countryUpper \notin DOMAIN idx.ByCountry THEN EmptyMap
    ELSE LET airports == idx.ByCountry[countryUpper]
         IN  [state \in {heap[airports[i]].State : i \in DOMAIN airports} \ {Str_empty} |->
                Cardinality({i \in DOMAIN airports : heap[airports[i]].State = state})]

\* GetRawData: the map s.data itself, not a copy
GetRawData(db) == db

----------------------------------------------------------------------------
(* The state machine of the statistics *)

\* the country, region and city a snapshot may give an airport: the
\* countries "B" and "b" and the cities "AB" and "ab" differ in case only
Places ==
    {[Country |-> Str_empty, State |-> Str_empty, City |-> Str_empty],
     [Country |-> Str_B, State |-> Str_b, City |-> Str_AB],
     [Country |-> Str_b, State |-> Str_empty, City |-> Str_ab],
     [Country |-> Str_b, State |-> Str_B, City |-> Str_AB],
     [Country |-> Str_AB, State |-> Str_b, City |-> Str_empty]}

\* the snapshots differ in the places and the alternate codes of their airports
StatsFields ==
    {f \in [IATA : {Str_empty, Str_b}, Name : {Str_B},
            City : {Str_empty, Str_AB, Str_ab}, State : {Str_empty, Str_b, Str_B},
            Country : {Str_empty, Str_B, Str_b, Str_AB},
            Elevation : {0}, Lat : {0}, Lon : {0}, Tz : {Str_empty}] :
        [Country |-> f.Country, State |-> f.State, City |-> f.City] \in Places}

\* the countries asked for
CountryPool == {Str_empty, Str_B, Str_b, Str_AB, Str_ab, Str_BA}

NewServiceStats == NewServiceFrom(StatsFields)

CallStats ==
    /\ MayCall("Stats", Str_empty, 0, 0)
    /\ Record("Stats", Str_empty, 0, 0,
              Result("ok", TRUE, <<>>, <<Stats(data, indexes)>>))

CallGetCountries ==
    /\ MayCall("GetCountries", Str_empty, 0, 0)
    /\ Record("GetCountries", Str_empty, 0, 0,
              Result("ok", TRUE, <<>>, <<GetCountries(indexes)>>))

CallGetStatesInCountry ==
    \E country \in CountryPool :
        /\ MayCall("GetStatesInCountry", country, 0, 0)
        /\ Record("GetStatesInCountry", country, 0, 0,
                  Result("ok", TRUE, <<>>, <<GetStatesInCountry(indexes, apts, country)>>))

NextStats ==
    \/ NewServiceStats
    \/ CallStats
    \/ CallGetCountries
    \/ CallGetStatesInCountry
    \/ ClientDone

SpecStats == Init /\ [][NextStats]_vars

----------------------------------------------------------------------------
(* Properties of the statistics *)

IsStats == svc = "ready" /\ last.op = "Stats"

\* C17: the figure "with_iata" of Stats is the number of records with a
\* non-empty alternate code, also when several records share a code.
C17_WithIATACountsRecords ==
    IsStats =>
        last.page[1].with_iata = Cardinality({r \in Catalog : r.IATA # Str_empty})

\* C18: Stats reports the number of records, the number of distinct
\* non-empty country codes and the number of distinct non-empty city names,
\* both taken without regard to letter case.
C18_StatsTotals ==
    IsStats =>
        /\ last.outcome = "ok"
        /\ last.page[1].total_airports = Cardinality(Catalog)
        /\ last.page[1].countries =
              Cardinality({ToLower(r.Country) : r \in Catalog} \ {Str_empty})
        /\ last.page[1].cities =
              Cardinality({ToUpper(r.City) : r \in Catalog} \ {Str_empty})

\* reached: two records in the countries "B" and "b" and the cities "AB" and
\* "ab"; Stats reported two airports, one country and one city
C18_Witness ==
    /\ IsStats
    /\ {r.Country : r \in Catalog} = {Str_B, Str_b}
    /\ {r.City : r \in Catalog} = {Str_AB, Str_ab}
    /\ last.page[1].total_airports = 2
    /\ last.page[1].countries = 1
    /\ last.page[1].cities = 1

\* the sum of the values of a map of counts
RECURSIVE SumOf(_)
SumOf(counts) ==
    IF DOMAIN counts = {} THEN 0
    ELSE LET k == CHOOSE x \in DOMAIN counts : TRUE
         IN  counts[k] + SumOf([x \in (DOMAIN counts) \ {k} |-> counts[x]])

\* the records of the catalog whose country is C up to letter case
InCountry(C) == {r \in Catalog : r.Country # Str_empty /\ ToLower(r.Country) = ToLower(C)}

\* C19: GetCountries maps every upper-cased country code of the catalog to
\* the number of records of that country (taken without regard to letter
\* case) and has no other entry; the counts GetStatesInCountry(C) returns
\* sum to the number of records of C with a non-empty region, and a country
\* without records yields the empty map, not a failure.
C19_CountryCounts ==
    /\ (svc = "ready" /\ last.op = "GetCountries") =>
          /\ last.outcome = "ok"
          /\ DOMAIN last.page[1] = {ToUpper(r.Country) : r \in Catalog} \ {Str_empty}
          /\ \A C \in DOMAIN last.page[1] :
                last.page[1][C] = Cardinality(InCountry(C)) /\ last.page[1][C] > 0
    /\ (svc = "ready" /\ last.op = "GetStatesInCountry") =>
          /\ last.outcome = "ok"
          /\ SumOf(last.page[1]) =
                Cardinality({r \in InCountry(last.arg) : r.State # Str_empty})
          /\ InCountry(last.arg) = {} => last.page[1] = EmptyMap

\* reached: the country "b" holds two records, written "B" and "b", one of
\* them without a region, and GetStatesInCountry("b") counted the other
C19_Witness ==
    /\ svc = "ready" /\ last.op = "GetStatesInCountry"
    /\ last.arg = Str_b
    /\ {r.Country : r \in InCountry(Str_b)} = {Str_B, Str_b}
    /\ \E r \in InCountry(Str_b) : r.State = Str_empty
    /\ SumOf(last.page[1]) = 1

----------------------------------------------------------------------------
(* Callers that write to what they were handed *)

\* how many records a caller may overwrite
MaxMutations == 1

\* the records overwritten so far: a caller writes the name "BA", which no
\* snapshot holds
Mutations ==
    Cardinality({k \in DOMAIN apts : apts[k].Name = Str_BA})
        + Cardinality({k \in DOMAIN data : data[k].Name = Str_BA})

\* the pointers into the indexes that call c handed out: GetByCode returns
\* the pointer it found; Search returns the pointers of its exact matches
\* and copies of its partial matches
ReturnedPointers(c) ==
    LET q == IF c.op = "Search" THEN ToUpper(ToLower(TrimSpace(c.arg))) ELSE ToUpper(c.arg)
        first == IF q \in DOMAIN indexes.ByICAO THEN {indexes.ByICAO[q]} ELSE {}
        bucket == IF q \in DOMAIN indexes.ByIATA THEN indexes.ByIATA[q] ELSE <<>>
    IN  IF c.op = "GetByCode"
        THEN IF first # {} THEN first
             ELSE IF Len(bucket) > 0 THEN {bucket[1]} ELSE {}
        ELSE IF c.op = "Search" /\ q # Str_empty
        THEN {p \in first \cup Range(bucket) : apts[p] \in Range(c.page)}
        ELSE {}

\* the caller of the last request writes to a record it was handed
MutateReturned ==
    /\ svc = "ready"
    /\ last # NoCall /\ prev = NoCall
    /\ Mutations < MaxMutations
    /\ \E p \in ReturnedPointers(last) :
          apts' = [apts EXCEPT ![p].Name = Str_BA]
    /\ UNCHANGED <<svc, data, indexes, last, prev, others>>

\* a caller of GetRawData overwrites an entry of the map it was handed
MutateRawData ==
    /\ svc = "ready"
    /\ Mutations < MaxMutations
    /\ \E k \in DOMAIN GetRawData(data) :
          data' = [data EXCEPT ![k].Name = Str_BA]
    /\ UNCHANGED <<svc, apts, indexes, last, prev, others>>

NextMut ==
    \/ NewService
    \/ CallGetByCode
    \/ CallSearch
    \/ CallGetAll
    \/ ClientDone
    \/ MutateReturned
    \/ MutateRawData

SpecMut == Init /\ [][NextMut]_vars

\* C20: what the queries return are snapshots: after a caller has written to
\* a record returned by GetByCode or Search, or to an entry of the map
\* GetRawData returns, a request repeated on the service is answered as it
\* was before (GetByCode and GetAll with the same records, Search with the
\* same set of matches).
C20_ReturnedRecordsAreSnapshots ==
    (svc = "ready" /\ prev # NoCall /\ SameRequest(prev, last)) =>
        /\ last.outcome = prev.outcome
        /\ last.op \in {"GetByCode", "GetAll"} => last.page = prev.page
        /\ last.op = "Search" => Range(last.list) = Range(prev.list)

----------------------------------------------------------------------------
(* Properties of the construction *)

\* C21: NewService fails fast: when loading the snapshot fails there is no
\* Service, no index has been built and nothing of the snapshot is kept; a
\* Service exists only with the whole snapshot loaded and its indexes built.
C21_NewServiceFailsFast ==
    /\ svc = "failed" =>
          data = EmptyMap /\ apts = EmptyMap /\ indexes = NilIndexes
    /\ svc = "ready" =>
          /\ apts = data
          /\ \E order \in RangeOrders(DOMAIN data) : indexes = BuildIndexes(data, order)
    /\ svc = "new" => data = EmptyMap /\ indexes = NilIndexes

\* reached: NewService has failed, and nothing was loaded or indexed
C21_Witness ==
    /\ svc = "failed"
    /\ data = EmptyMap
    /\ indexes = NilIndexes

----------------------------------------------------------------------------
(* The client address of a request *)

\* the bytes used: ',' = 44, '1' .. '8' = 49 .. 56, ':' = 58, '[' = 91,
\* ']' = 93
Str_1 == <<49>>
Str_1c2 == <<49, 58, 50>>
Str_1c2c3 == <<49, 58, 50, 58, 51>>
Str_c2 == <<58, 50>>
Str_b1b == <<91, 49, 93>>
Str_b1bc2 == <<91, 49, 93, 58, 50>>
Str_b1c3bc2 == <<91, 49, 58, 51, 93, 58, 50>>
Str_1bc2 == <<49, 93, 58, 50>>
Str_4 == <<52>>
Str_4k5 == <<52, 44, 53>>
Str_k5 == <<44, 53>>
Str_4k5k6 == <<52, 44, 53, 44, 54>>
Str_7 == <<55>>
Str_7k8 == <<55, 44, 56>>

\* strings.IndexByte, counted from 1; 0 when the byte does not occur
IndexByte(s, c) ==
    IF \E i \in DOMAIN s : s[i] = c
    THEN CHOOSE i \in DOMAIN s : s[i] = c /\ \A j \in 1..(i - 1) : s[j] # c
    ELSE 0

\* strings.LastIndexByte, counted from 1; 0 when the byte does not occur
LastIndexByte(s, c) ==
    IF \E i \in DOMAIN s : s[i] = c
    THEN CHOOSE i \in DOMAIN s : s[i] = c /\ \A j \in (i + 1)..Len(s) : s[j] # c
    ELSE 0

\* net.SplitHostPort: the port starts after the last colon; a host in
\* brackets must end just before that colon; no other bracket may occur
SplitHostPort(hostport) ==
    LET i == LastIndexByte(hostport, 58)
        end == IndexByte(hostport, 93)
        failed == [host |-> <<>>, port |-> <<>>, err |-> TRUE]
        bracketed == i # 0 /\ hostport[1] = 91
        host == IF bracketed THEN SubSeq(hostport, 2, end - 1)
                ELSE SubSeq(hostport, 1, i - 1)
        afterOpen == IF bracketed THEN SubSeq(hostport, 2, Len(hostport)) ELSE hostport
        afterClose == IF bracketed THEN SubSeq(hostport, end + 1, Len(hostport))
                      ELSE hostport
    IN  IF i = 0 THEN failed
        ELSE IF bracketed /\ (end = 0 \/ end = Len(hostport) \/ end + 1 # i) THEN failed
        ELSE IF ~bracketed /\ IndexByte(host, 58) # 0 THEN failed
        ELSE IF IndexByte(afterOpen, 91) # 0 THEN failed
        ELSE IF IndexByte(afterClose, 93) # 0 THEN failed
        ELSE [host |-> host, port |-> SubSeq(hostport, i + 1, Len(hostport)),
              err |-> FALSE]

\* ExtractIPFromRequest looking at X-Real-IP before X-Forwarded-For
ExtractIPFromRequest_RealIPFirst(remoteAddr, xForwardedFor, xRealIP) ==
    IF xRealIP # Str_empty THEN xRealIP
    ELSE IF xForwardedFor # Str_empty
    THEN IF IndexByte(xForwardedFor, 44) # 0
         THEN SubSeq(xForwardedFor, 1, IndexByte(xForwardedFor, 44) - 1)
         ELSE xForwardedFor
    ELSE IF ~SplitHostPort(remoteAddr).err THEN SplitHostPort(remoteAddr).host
    ELSE remoteAddr

ExtractIPFromRequest(remoteAddr, xForwardedFor, xRealIP) ==
    IF xForwardedFor # Str_empty
    THEN IF IndexByte(xForwardedFor, 44) # 0
         THEN SubSeq(xForwardedFor, 1, IndexByte(xForwardedFor, 44) - 1)
         ELSE xForwardedFor
    ELSE IF xRealIP # Str_empty THEN xRealIP
    ELSE IF ~SplitHostPort(remoteAddr).err THEN SplitHostPort(remoteAddr).host
    ELSE remoteAddr

\* the remote addresses, with and without a port, and malformed ones
RemoteAddrs ==
    {Str_empty, Str_1, Str_1c2, Str_1c2c3, Str_c2, Str_b1b, Str_b1bc2,
     Str_b1c3bc2, Str_1bc2}

\* the values of the header X-Forwarded-For
ForwardedFors == {Str_empty, Str_4, Str_4k5, Str_k5, Str_4k5k6}

\* the values of the header X-Real-IP
RealIPs == {Str_empty, Str_7, Str_7k8}

CallExtractIPFromRequest ==
    \E remoteAddr \in RemoteAddrs, xForwardedFor \in ForwardedFors, xRealIP \in RealIPs :
        /\ last = NoCall
        /\ Record("ExtractIPFromRequest",
                  [remoteAddr |-> remoteAddr, xForwardedFor |-> xForwardedFor,
                   xRealIP |-> xRealIP], 0, 0,
                  Result("ok", FALSE, <<>>,
                         <<ExtractIPFromRequest(remoteAddr, xForwardedFor, xRealIP)>>))

NextIP ==
    \/ CallExtractIPFromRequest
    \/ ClientDone

SpecIP == Init /\ [][NextIP]_vars

IsExtractIP == last.op = "ExtractIPFromRequest"

\* byte c does not occur in s
NoByte(s, c) == \A i \in DOMAIN s : s[i] # c

NoBracket(s) == NoByte(s, 91) /\ NoByte(s, 93)

\* the hosts h for which addr is h:port or [h]:port
HostsOf(addr) ==
    {h \in {SubSeq(addr, a, b) : a \in 1..2, b \in 0..Len(addr)} :
        \E n \in DOMAIN addr :
            LET port == SubSeq(addr, n + 1, Len(addr)) IN
            /\ addr[n] = 58 /\ NoByte(port, 58) /\ NoBracket(port)
            /\ \/ addr = h \o <<58>> \o port /\ NoByte(h, 58) /\ NoBracket(h)
               \/ addr = <<91>> \o h \o <<93, 58>> \o port /\ NoBracket(h)}

\* C22: ExtractIPFromRequest returns the first comma-separated element of
\* X-Forwarded-For when that header is not empty, otherwise X-Real-IP when
\* it is not empty, otherwise the host of the remote address when the
\* address is host:port, and the remote address unchanged when it is not.
C22_ExtractIPPriority ==
    IsExtractIP =>
        LET a == last.arg
            ip == last.page[1]
        IN  IF a.xForwardedFor # Str_empty
            THEN /\ Len(ip) <= Len(a.xForwardedFor)
                 /\ ip = SubSeq(a.xForwardedFor, 1, Len(ip))
                 /\ NoByte(ip, 44)
                 /\ Len(ip) = Len(a.xForwardedFor) \/ a.xForwardedFor[Len(ip) + 1] = 44
            ELSE IF a.xRealIP # Str_empty THEN ip = a.xRealIP
            ELSE IF HostsOf(a.remoteAddr) # {} THEN ip \in HostsOf(a.remoteAddr)
            ELSE ip = a.remoteAddr

\* reached: with X-Forwarded-For "4,5", X-Real-IP "7" and the remote address
\* "1:2" the answer was "4"
C22_Witness ==
    /\ IsExtractIP
    /\ last.arg = [remoteAddr |-> Str_1c2, xForwardedFor |-> Str_4k5, xRealIP |-> Str_7]
    /\ last.page[1] = Str_4

----------------------------------------------------------------------------
(* Properties of the indexes *)

\* C23: after BuildIndexes every record of the catalog is in the
\* primary-code index exactly once: the index has as many entries as the
\* catalog has records and every key, upper-cased, leads to the record of
\* that key, also when two keys differ in letter case only.
C23_PrimaryIndexExact ==
    svc = "ready" =>
        /\ Cardinality(DOMAIN indexes.ByICAO) = Cardinality(DOMAIN data)
        /\ \A k \in DOMAIN data :
              /\ ToUpper(k) \in DOMAIN indexes.ByICAO
              /\ indexes.ByICAO[ToUpper(k)] = k
              /\ apts[k] = data[k]

\* the keys of the buckets of index idx that hold the record of key k
BucketsHolding(idx, k) == {key \in DOMAIN idx : k \in Range(idx[key])}

\* the record of key k is once in the bucket `key` of idx and in no other
\* bucket when value is not empty, and in no bucket when it is
IndexedOnce(idx, k, value, key) ==
    IF value = Str_empty
    THEN BucketsHolding(idx, k) = {}
    ELSE /\ BucketsHolding(idx, k) = {key}
         /\ Cardinality({i \in DOMAIN idx[key] : idx[key][i] = k}) = 1

\* C24: after BuildIndexes a record with a non-empty alternate code,
\* locality, country or region is exactly once in the bucket keyed by that
\* value in upper case (alternate code, country) or lower case (locality,
\* region) and in no other bucket of that index; a record whose value is
\* empty is in no bucket, and no bucket is keyed by the empty string.
C24_SecondaryIndexes ==
    svc = "ready" =>
        /\ \A k \in DOMAIN data :
              /\ IndexedOnce(indexes.ByIATA, k, data[k].IATA, ToUpper(data[k].IATA))
              /\ IndexedOnce(indexes.ByCity, k, data[k].City, ToLower(data[k].City))
              /\ IndexedOnce(indexes.ByCountry, k, data[k].Country, ToUpper(data[k].Country))
              /\ IndexedOnce(indexes.ByState, k, data[k].State, ToLower(data[k].State))
        /\ \A idx \in {indexes.ByIATA, indexes.ByCity, indexes.ByCountry, indexes.ByState} :
              /\ Str_empty \notin DOMAIN idx
              /\ \A key \in DOMAIN idx : Range(idx[key]) \subseteq DOMAIN data

\* reached: one record with the region "B", indexed under "b", and one
\* record without a region, which the region index does not hold
C24_Witness ==
    /\ svc = "ready"
    /\ \E k1, k2 \in DOMAIN data :
          /\ data[k1].State = Str_B
          /\ data[k2].State = Str_empty
          /\ DOMAIN indexes.ByState = {Str_b}
          /\ indexes.ByState[Str_b] = <<k1>>

----------------------------------------------------------------------------
(* Concurrent queries and the lock of the indexes *)

\* the operations the Service exposes
QueryOps ==
    {"GetByCode", "Search", "GetByCity", "GetByCountry", "GetByState",
     "GetNearby", "GetNearbyWithDistance", "GetInBoundingBox", "GetAll",
     "GetCountries", "GetStatesInCountry", "Stats", "GetRawData"}

\* the operations that begin with s.indexes.mu.RLock() and
\* defer s.indexes.mu.RUnlock(): all but GetRawData
LockingOps == QueryOps \ {"GetRawData"}

\* the ways an operation ends: GetByCode finds a record or not; Search
\* returns early on an empty query; Search and GetAll return early on an
\* offset past the end and panic on a slice out of range; GetNearby and
\* GetNearbyWithDistance panic on a negative length
ReturnPaths(op) ==
    CASE op = "GetByCode" -> {"normal", "notfound"}
      [] op = "Search" -> {"normal", "empty", "pastend", "panic"}
      [] op = "GetAll" -> {"normal", "pastend", "panic"}
      [] op \in {"GetNearby", "GetNearbyWithDistance"} -> {"normal", "panic"}
      [] OTHER -> {"normal"}

\* the snapshots of the concurrent queries: the keys vary, the fields do not
LockFields ==
    [IATA : {Str_b}, Name : {Str_B}, City : {Str_AB}, State : {Str_b},
     Country : {Str_B}, Elevation : {0}, Lat : {0}, Lon : {0}, Tz : {Str_empty}]

NewServiceLock == NewServiceFrom(LockFields)

\* goroutine g enters an operation of the Service
StartCall(g) ==
    /\ svc = "ready"
    /\ calls[g].pc = "idle"
    /\ \E op \in QueryOps :
          calls' = [calls EXCEPT ![g] = [pc |-> "called", op |-> op, held |-> FALSE,
                                         path |-> "none"]]
    /\ UNCHANGED <<svc, data, apts, indexes, last, prev, mu, sched, geoip>>

\* RLock taking the lock only when no other reader holds it
RLock_WaitsForReaders(g) ==
    /\ calls[g].pc = "called"
    /\ calls[g].op \in LockingOps
    /\ ~mu.writer /\ mu.readers = 0
    /\ mu' = [mu EXCEPT !.readers = @ + 1]
    /\ calls' = [calls EXCEPT ![g].pc = "locked", ![g].held = TRUE]
    /\ UNCHANGED <<svc, data, apts, indexes, last, prev, sched, geoip>>

\* s.indexes.mu.RLock(): waits while a writer holds the lock
RLock(g) ==
    /\ calls[g].pc = "called"
    /\ calls[g].op \in LockingOps
    /\ ~mu.writer
    /\ mu' = [mu EXCEPT !.readers = @ + 1]
    /\ calls' = [calls EXCEPT ![g].pc = "locked", ![g].held = TRUE]
    /\ UNCHANGED <<svc, data, apts, indexes, last, prev, sched, geoip>>

\* Reads in which Search leaves its query in the city index
Reads_WritesIndex(g) ==
    /\ \/ calls[g].pc = "locked"
       \/ calls[g].pc = "called" /\ calls[g].op = "GetRawData"
    /\ \E path \in ReturnPaths(calls[g].op) :
          calls' = [calls EXCEPT ![g].pc = "read", ![g].path = path]
    /\ indexes' = IF calls[g].op = "Search"
                  THEN [indexes EXCEPT !.ByCity = MapPut(@, Str_sp, <<>>)]
                  ELSE indexes
    /\ UNCHANGED <<svc, data, apts, last, prev, mu, sched, geoip>>

\* the body of the operation: it reads s.data and s.indexes, builds its
\* result in slices and maps of its own, and takes one of its return paths
Reads(g) ==
    /\ \/ calls[g].pc = "locked"
       \/ calls[g].pc = "called" /\ calls[g].op = "GetRawData"
    /\ \E path \in ReturnPaths(calls[g].op) :
          calls' = [calls EXCEPT ![g].pc = "read", ![g].path = path]
    /\ UNCHANGED <<svc, data, apts, indexes, last, prev, mu, sched, geoip>>

\* the operation returns or unwinds: the deferred RUnlock runs
Return(g) ==
    /\ calls[g].pc = "read"
    /\ mu' = IF calls[g].held THEN [mu EXCEPT !.readers = @ - 1] ELSE mu
    /\ calls' = [calls EXCEPT ![g] = NoQuery]
    /\ UNCHANGED <<svc, data, apts, indexes, last, prev, sched, geoip>>

NextLock ==
    \/ NewServiceLock
    \/ \E g \in Callers : StartCall(g)
    \/ \E g \in Callers : RLock(g)
    \/ \E g \in Callers : Reads(g)
    \/ \E g \in Callers : Return(g)

SpecLock == Init /\ [][NextLock]_vars

\* every goroutine that is in a call is scheduled again: the operations do
\* no blocking I/O, and the Go scheduler runs every runnable goroutine
SpecLockFair ==
    SpecLock /\ \A g \in Callers : WF_vars(RLock(g) \/ Reads(g) \/ Return(g))

\* C25: no query changes the catalog or an index: in every interleaving of
\* calls of the operations, the catalog and the five indexes stay as
\* NewService left them.
C25_QueriesChangeNothing ==
    [][svc = "ready" => (data' = data /\ apts' = apts /\ indexes' = indexes)]_vars

\* reached: two calls are in progress at once, one of them a Search that has
\* done its reading
C25_Witness ==
    /\ svc = "ready"
    /\ DOMAIN data # {}
    /\ calls["c1"].op = "Search" /\ calls["c1"].pc = "read"
    /\ calls["c2"].pc = "locked"

\* C26: every operation reads the catalog and the indexes only while it
\* holds the read lock, and has released it when it has returned, on every
\* return path: no read lock is held when no call is in progress.
C26_ReadsUnderLock ==
    /\ \A g \in Callers :
          (calls[g].pc = "read" /\ calls[g].path # "empty") => calls[g].held
    /\ (\A g \in Callers : calls[g].pc = "idle") => mu.readers = 0
    /\ mu.readers = Cardinality({g \in Callers : calls[g].held})

\* C27: no operation takes the write side of the lock, a call that asks for
\* the read side gets it whoever else holds it, and every call that has
\* started ends.
C27_ReadersNeverWait ==
    /\ [](~mu.writer)
    /\ [](\A g \in Callers :
            (calls[g].pc = "called" /\ calls[g].op \in LockingOps) => ENABLED RLock(g))
    /\ \A g \in Callers : (calls[g].pc # "idle") ~> (calls[g].pc = "idle")

\* reached: both goroutines hold the read lock at the same time
C27_Witness ==
    /\ mu.readers = 2
    /\ \A g \in Callers : calls[g].pc = "locked"

(* Properties of the limits and offsets *)

\* C28: Search, GetAll, GetNearby and GetNearbyWithDistance never fail,
\* whatever integers, negative ones included, they are given as limit and
\* offset: no call of them ends in a panic.
C28_NoLimitOrOffsetFails ==
    last.op \in {"Search", "GetAll", "GetNearby", "GetNearbyWithDistance"}
        => last.outcome # "panic"

----------------------------------------------------------------------------
(* The scheduler of the weekly database update *)

\* the ticks (of one minute) the clock runs for
MaxTime == 7
\* the tasks main registers
MaxTasks == 1
\* the week between two Sundays 3:00, in ticks
Week == 3

Schedules == {"0 3 * * 0", "@daily"}

\* calculateNextRun at clock t: for the weekly schedule the next Sunday 3:00,
\* which is t itself when t is a Sunday 3:00 (now.After(target) is false);
\* for any other schedule seven days from t
calculateNextRun(schedule, t) ==
    IF schedule = "0 3 * * 0"
    THEN ((t + Week - 1) \div Week) * Week
    ELSE t + Week

\* AddTask, called before Start at any time of the week
AddTask ==
    /\ ~sched.started
    /\ Len(sched.tasks) < MaxTasks
    /\ \E schedule \in Schedules, t \in 0..(Week - 1) :
          sched' = [sched EXCEPT
                      !.now = t,
                      !.tasks = Append(@, [Schedule |-> schedule, enabled |-> TRUE,
                                           nextRun |-> calculateNextRun(schedule, t),
                                           running |-> 0])]
    /\ UNCHANGED <<svc, data, apts, indexes, last, prev, mu, calls, geoip>>

\* Start: go s.run()
Start ==
    /\ ~sched.started
    /\ sched' = [sched EXCEPT !.started = TRUE]
    /\ UNCHANGED <<svc, data, apts, indexes, last, prev, mu, calls, geoip>>

\* Stop: close(s.stopCh); the runs in flight go on
Stop ==
    /\ sched.started /\ ~sched.stopped
    /\ sched' = [sched EXCEPT !.stopped = TRUE]
    /\ UNCHANGED <<svc, data, apts, indexes, last, prev, mu, calls, geoip>>

\* one tick of the loop of run: every enabled task whose nextRun is before
\* the tick gets a new goroutine that runs its handler; nothing records that
\* a run of the task is in flight. nextRun is read without synchronisation:
\* readInFlight records a read made while a run that has yet to write it exists
Tick ==
    /\ sched.started /\ ~sched.stopped
    /\ sched.now < MaxTime
    /\ sched' = [sched EXCEPT
                   !.now = @ + 1,
                   !.tasks = [i \in DOMAIN @ |->
                                IF @[i].enabled /\ sched.now + 1 > @[i].nextRun
                                THEN [@[i] EXCEPT !.running = @ + 1]
                                ELSE @[i]],
                   !.readInFlight = @ \/ \E i \in DOMAIN sched.tasks :
                                            sched.tasks[i].running > 0]
    /\ UNCHANGED <<svc, data, apts, indexes, last, prev, mu, calls, geoip>>

\* a run of task i ends: the handler has returned, with an error or without,
\* and the goroutine sets t.nextRun = calculateNextRun(t.Schedule)
Finish(i) ==
    /\ sched.tasks[i].running > 0
    /\ sched' = [sched EXCEPT
                   !.tasks[i].running = @ - 1,
                   !.tasks[i].nextRun = calculateNextRun(sched.tasks[i].Schedule, sched.now)]
    /\ UNCHANGED <<svc, data, apts, indexes, last, prev, mu, calls, geoip>>

NextSched ==
    \/ AddTask
    \/ Start
    \/ Stop
    \/ Tick
    \/ \E i \in DOMAIN sched.tasks : Finish(i)

SpecSched == Init /\ [][NextSched]_vars

\* C29: the scheduler never starts a run of a task while the previous run of
\* that task is still executing: at most one run of a task is in flight,
\* and the loop reads the next-run time of a task only when no run that has
\* yet to set it is in flight.
C29_OneRunInFlight ==
    /\ \A i \in DOMAIN sched.tasks : sched.tasks[i].running <= 1
    /\ ~sched.readInFlight

----------------------------------------------------------------------------
(* The GeoIP databases: lookups during an update *)

\* the calls of UpdateDatabases the scheduler makes
MaxUpdates == 2

\* the order in which Close and LoadDatabases go through the four fields
FieldOrder == <<"cityIPv4DB", "cityIPv6DB", "countryDB", "asnDB">>

IPVersions == {"v4", "v6"}

\* the field Lookup takes its city reader from: ip.To4() != nil or not
CityField(ip) == IF ip = "v4" THEN "cityIPv4DB" ELSE "cityIPv6DB"

\* reader r of field f has been closed
IsClosed(f, r) == <<f, r>> \in geoip.closed

\* UpdateDatabases is called: the temporary directory is made
UpdateDatabases ==
    /\ geoip.update.pc = "idle"
    /\ geoip.update.runs < MaxUpdates
    /\ geoip' = [geoip EXCEPT !.update = [pc |-> "download", result |-> "none", i |-> 1,
                                          runs |-> @.runs + 1]]
    /\ UNCHANGED <<svc, data, apts, indexes, last, prev, mu, calls, sched>>

\* the four downloads to the temporary directory: a failure returns the
\* error before anything of the service is touched
Download ==
    /\ geoip.update.pc = "download"
    /\ \E ok \in BOOLEAN :
          geoip' = IF ok
                   THEN [geoip EXCEPT !.update.pc = "close", !.update.i = 1]
                   ELSE [geoip EXCEPT !.update.pc = "idle", !.update.result = "error"]
    /\ UNCHANGED <<svc, data, apts, indexes, last, prev, mu, calls, sched>>

\* s.Close(), one field at a step: a reader that is not nil is closed and
\* the field set to nil
CloseNext ==
    /\ geoip.update.pc = "close"
    /\ LET f == FieldOrder[geoip.update.i]
           last4 == geoip.update.i = Len(FieldOrder)
       IN  geoip' = [geoip EXCEPT
                       !.closed = IF geoip.db[f] # NilReader
                                  THEN @ \cup {<<f, geoip.db[f]>>} ELSE @,
                       !.db[f] = NilReader,
                       !.update.pc = IF last4 THEN "rename" ELSE "close",
                       !.update.i = IF last4 THEN 1 ELSE @ + 1]
    /\ UNCHANGED <<svc, data, apts, indexes, last, prev, mu, calls, sched>>

\* the renames of the temporary files: a failure returns the error, after
\* Close
Rename ==
    /\ geoip.update.pc = "rename"
    /\ \E ok \in BOOLEAN :
          geoip' = IF ok
                   THEN [geoip EXCEPT !.update.pc = "load", !.update.i = 1]
                   ELSE [geoip EXCEPT !.update.pc = "idle", !.update.result = "error"]
    /\ UNCHANGED <<svc, data, apts, indexes, last, prev, mu, calls, sched>>

\* LoadDatabases, one geoip2.Open at a step (its own s.Close() finds the
\* fields nil): an opened reader is stored in its field; a failure closes
\* the readers opened before it, leaves them in their fields, and returns
\* the error
OpenNext ==
    /\ geoip.update.pc = "load"
    /\ LET i == geoip.update.i
           f == FieldOrder[i]
           last4 == i = Len(FieldOrder)
       IN  \E ok \in BOOLEAN :
              geoip' = IF ok
                       THEN [geoip EXCEPT
                               !.db[f] = geoip.loads + 1,
                               !.loads = IF last4 THEN @ + 1 ELSE @,
                               !.update.pc = IF last4 THEN "idle" ELSE "load",
                               !.update.result = IF last4 THEN "ok" ELSE @,
                               !.update.i = IF last4 THEN 1 ELSE @ + 1]
                       ELSE [geoip EXCEPT
                               !.closed = @ \cup {<<FieldOrder[j], geoip.db[FieldOrder[j]]>> :
                                                     j \in 1..(i - 1)},
                               !.loads = @ + 1,
                               !.update.pc = "idle",
                               !.update.result = "error",
                               !.update.i = 1]
    /\ UNCHANGED <<svc, data, apts, indexes, last, prev, mu, calls, sched>>

\* Lookup(ip) is called by a handler, with an address that parsed
Lookup ==
    /\ geoip.lookup.pc = "idle"
    /\ \E ip \in IPVersions :
          geoip' = [geoip EXCEPT !.lookup = [pc |-> "check", ip |-> ip, cityDB |-> NilReader,
                                             result |-> "none", from |-> NilReader]]
    /\ UNCHANGED <<svc, data, apts, indexes, last, prev, mu, calls, sched>>

\* the test of the fields for nil: "GeoIP databases not loaded"
LookupCheck ==
    /\ geoip.lookup.pc = "check"
    /\ geoip' = IF \/ geoip.db["cityIPv4DB"] = NilReader /\ geoip.db["cityIPv6DB"] = NilReader
                   \/ geoip.db["countryDB"] = NilReader
                THEN [geoip EXCEPT !.lookup.pc = "idle", !.lookup.result = "notloaded"]
                ELSE [geoip EXCEPT !.lookup.pc = "pick"]
    /\ UNCHANGED <<svc, data, apts, indexes, last, prev, mu, calls, sched>>

\* cityDB = s.cityIPv4DB or s.cityIPv6DB: the pointer is copied
LookupPick ==
    /\ geoip.lookup.pc = "pick"
    /\ geoip' = [geoip EXCEPT !.lookup.pc = "city",
                              !.lookup.cityDB = geoip.db[CityField(geoip.lookup.ip)]]
    /\ UNCHANGED <<svc, data, apts, indexes, last, prev, mu, calls, sched>>

\* cityDB.City(ip) when cityDB is not nil: an open reader answers; a closed
\* one fails, with an error (on to the country database) or with a fault of
\* the process
LookupCity ==
    /\ geoip.lookup.pc = "city"
    /\ LET f == CityField(geoip.lookup.ip)
           r == geoip.lookup.cityDB
       IN  \/ /\ r = NilReader
              /\ geoip' = [geoip EXCEPT !.lookup.pc = "country"]
           \/ /\ r # NilReader /\ ~IsClosed(f, r)
              /\ geoip' = [geoip EXCEPT !.lookup.pc = "asn", !.lookup.from = r]
           \/ /\ r # NilReader /\ IsClosed(f, r)
              /\ \E fault \in BOOLEAN :
                    geoip' = [geoip EXCEPT
                                !.usedClosed = TRUE,
                                !.lookup.pc = IF fault THEN "idle" ELSE "country",
                                !.lookup.result = IF fault THEN "fault" ELSE @]
    /\ UNCHANGED <<svc, data, apts, indexes, last, prev, mu, calls, sched>>

\* s.countryDB.Country(ip): the field is read again; nil is a nil
\* dereference, a closed reader fails with "geolocation failed" or a fault
LookupCountry ==
    /\ geoip.lookup.pc = "country"
    /\ LET r == geoip.db["countryDB"]
       IN  \/ /\ r = NilReader
              /\ geoip' = [geoip EXCEPT !.lookup.pc = "idle", !.lookup.result = "fault"]
           \/ /\ r # NilReader /\ ~IsClosed("countryDB", r)
              /\ geoip' = [geoip EXCEPT !.lookup.pc = "asn", !.lookup.from = r]
           \/ /\ r # NilReader /\ IsClosed("countryDB", r)
              /\ \E fault \in BOOLEAN :
                    geoip' = [geoip EXCEPT
                                !.usedClosed = TRUE,
                                !.lookup.pc = "idle",
                                !.lookup.result = IF fault THEN "fault" ELSE "failed"]
    /\ UNCHANGED <<svc, data, apts, indexes, last, prev, mu, calls, sched>>

\* addASNInfo: s.asnDB, when not nil, is asked; its error is ignored. Then
\* Lookup returns the location
LookupASN ==
    /\ geoip.lookup.pc = "asn"
    /\ LET r == geoip.db["asnDB"]
       IN  \/ /\ r = NilReader \/ ~IsClosed("asnDB", r)
              /\ geoip' = [geoip EXCEPT !.lookup.pc = "idle", !.lookup.result = "answer"]
           \/ /\ r # NilReader /\ IsClosed("asnDB", r)
              /\ \E fault \in BOOLEAN :
                    geoip' = [geoip EXCEPT
                                !.usedClosed = TRUE,
                                !.lookup.pc = "idle",
                                !.lookup.result = IF fault THEN "fault" ELSE "answer"]
    /\ UNCHANGED <<svc, data, apts, indexes, last, prev, mu, calls, sched>>

NextGeoIP ==
    \/ UpdateDatabases
    \/ Download
    \/ CloseNext
    \/ Rename
    \/ OpenNext
    \/ Lookup
    \/ LookupCheck
    \/ LookupPick
    \/ LookupCity
    \/ LookupCountry
    \/ LookupASN

SpecGeoIP == Init /\ [][NextGeoIP]_vars

\* C30: a Lookup that runs while UpdateDatabases runs never uses a closed
\* reader: it answers from the old databases, from the reloaded ones, or
\* with the error "GeoIP databases not loaded"; and when UpdateDatabases
\* has returned an error, the service still has the databases it had
\* before, open.
C30_LookupDuringUpdate ==
    /\ ~geoip.usedClosed
    /\ geoip.lookup.result \in {"none", "answer", "notloaded"}
    /\ (geoip.update.pc = "idle" /\ geoip.update.result = "error")
          => \A f \in DBFields : geoip.db[f] # NilReader /\ ~IsClosed(f, geoip.db[f])

====
